---- MODULE Spec2Model ----
(***************************************************************************)
(* Model of src/simulation/ipfe_poa.rs: one run of simulate_game, the      *)
(* per-position liquidation auction under the six obfuscation strategies,  *)
(* and the metrics computed at the end of the run.                         *)
(*                                                                         *)
(* Numbers.  The program computes in f64.  The model computes in exact     *)
(* rational arithmetic: a number is a pair <<n, d>> with d > 0 and         *)
(* gcd(n, d) = 1.  The rounding of f64 operations is not modelled.         *)
(*                                                                         *)
(* Randomness.  Every call rng.gen::<f64>() is a choice from the finite    *)
(* set Draws, and rng.gen_range(0..n) is a choice from 0..n-1.             *)
(***************************************************************************)
EXTENDS Integers, Sequences, FiniteSets

(***************************************************************************)
(* Bounds of the model.                                                    *)
(***************************************************************************)
\* Number of positions of a run (NUM_CDPS in the program, there 100).
MaxCdps == 2
\* Largest number of keepers of a run (NUM_KEEPERS in the program, there 20).
MaxKeepers == 2
\* Number of keepers of the runs in which the split of a profit is examined.
SplitKeepers == 4

(***************************************************************************)
(* Exact rational arithmetic.                                              *)
(***************************************************************************)
Abs(n) == IF n < 0 THEN -n ELSE n

RECURSIVE GCD(_, _)
GCD(a, b) == IF b = 0 THEN a ELSE GCD(b, a % b)

LCM(a, b) == (a \div GCD(a, b)) * b

Norm(n, d) == LET g == GCD(Abs(n), d) IN <<n \div g, d \div g>>

R(n, d) == Norm(n, d)

Zero == <<0, 1>>

One == <<1, 1>>

RAdd(a, b) ==
  LET l == LCM(a[2], b[2])
  IN  Norm(a[1] * (l \div a[2]) + b[1] * (l \div b[2]), l)

RNeg(a) == <<-a[1], a[2]>>

RSub(a, b) == RAdd(a, RNeg(b))

RMul(a, b) == Norm(a[1] * b[1], a[2] * b[2])

\* a * b with the factors reduced crosswise before they are multiplied
RMulReduced(a, b) ==
  LET g1 == GCD(Abs(a[1]), b[2])
      g2 == GCD(Abs(b[1]), a[2])
  IN  Norm((a[1] \div g1) * (b[1] \div g2), (a[2] \div g2) * (b[2] \div g1))

\* a / b for b # 0
RDiv(a, b) ==
  IF b[1] > 0 THEN RMulReduced(a, <<b[2], b[1]>>)
              ELSE RMulReduced(a, <<-b[2], -b[1]>>)

RLess(a, b) == a[1] * b[2] < b[1] * a[2]

RLeq(a, b) == ~RLess(b, a)

RMin(a, b) == IF RLess(b, a) THEN b ELSE a

RMax(a, b) == IF RLess(a, b) THEN b ELSE a

RInt(n) == <<n, 1>>

(***************************************************************************)
(* Program constants.                                                      *)
(***************************************************************************)
ETH_PRICE == 2000

LIQUIDATION_PENALTY == R(13, 100)

Strategies ==
  {"Transparent", "NoiseBased", "IPFE", "FairRAI", "FairRAI5050", "KeeperPool"}

true_weights == <<R(2, 1), R(-1, 1), R(-3, 2), R(3, 10), R(-3, 10)>>

true_threshold == R(2, 1)

noise_level == R(29, 100)

\* The 5 of `NUM_KEEPERS / 5`, the number of keepers of the top 20%.
TOP_DIVISOR == 5

\* simulate_game calls game.simulate_price_drop(0.10)
PRICE_DROP_PCT == R(10, 100)

(***************************************************************************)
(* Values of the uniform draws rng.gen::<f64>() in [0, 1).                 *)
(***************************************************************************)
Draws == {R(1, 10), R(9, 10)}

\* The draws that make a position: collateral, ratio, age, volatility.
CollateralDraws == {Zero}

RatioDraws == {R(4, 5), R(49, 50)}

AgeDraws == {Zero}

VolatilityDraws == {Zero, R(1, 2)}

(***************************************************************************)
(* CDP                                                                     *)
(***************************************************************************)
CDP_new(id, u1, u2, u3, u4) ==
  LET collateral == RAdd(One, RMul(u1, RInt(9)))
      ratio == RAdd(R(13, 10), RMul(u2, R(1, 2)))
      debt == RDiv(RMul(collateral, RInt(ETH_PRICE)), ratio)
  IN  [id |-> id,
       collateral |-> collateral,
       debt |-> debt,
       age_days |-> RMul(u3, RInt(365)),
       volatility_score |-> u4]

collateral_ratio(cdp, price) == RDiv(RMul(cdp.collateral, price), cdp.debt)

features(cdp, price) ==
  << collateral_ratio(cdp, price),
     cdp.volatility_score,
     RDiv(cdp.debt, RMul(cdp.collateral, price)),
     RMin(RDiv(cdp.age_days, RInt(365)), One),
     RMin(RDiv(RMul(cdp.collateral, price), RInt(10000)), RInt(2)) >>

liquidation_profit(cdp, price) ==
  LET collateral_value == RMul(cdp.collateral, price)
      profit == RSub(RSub(collateral_value, cdp.debt), RInt(50))
  IN  RMul(RMax(profit, Zero), LIQUIDATION_PENALTY)

(***************************************************************************)
(* Keeper                                                                  *)
(***************************************************************************)
Keeper_new(id, u) ==
  [id |-> id, gas_priority |-> u, total_profit |-> Zero,
   successful_liquidations |-> 0]

(***************************************************************************)
(* State of one run of simulate_game.                                      *)
(***************************************************************************)
VARIABLES
  strategy,                 \* game.strategy
  cdps,                     \* game.cdps: sequence, cdps[i].id = i - 1
  eth_price,                \* game.eth_price
  keepers,                  \* keepers, a function on the keeper ids 0..n-1
  truly_liquidatable,       \* indices of the truly liquidatable CDPs
  total_profit_extracted,
  failed_attempts,
  successful_liquidations,
  front_runner_profit,
  missed_liquidations,
  cdp_idx,                  \* position of the loop `for cdp in &game.cdps`
  attempts,                 \* bids of the current CDP: <<keeper_id, priority, confidence>>
  winner,                   \* <<[idx, bid]>>: winner_idx and attempts[winner_idx] of the
                            \* CDP resolved last; <<>> if it had no bid
  result,                   \* <<>> until the run returns, then <<GameResult>>
  pc                        \* "start", "collect", "resolve", "metrics", "done"

vars ==
  << strategy, cdps, eth_price, keepers, truly_liquidatable,
     total_profit_extracted, failed_attempts, successful_liquidations,
     front_runner_profit, missed_liquidations, cdp_idx, attempts, winner,
     result, pc >>

NoWinner == <<>>

NUM_KEEPERS == Cardinality(DOMAIN keepers)

KeeperIds == DOMAIN keepers

(***************************************************************************)
(* LiquidationGame                                                         *)
(***************************************************************************)
compute_true_score(cdp, price) ==
  LET f == features(cdp, price)
      w == true_weights
  IN  RAdd(RAdd(RAdd(RAdd(RAdd(Zero, RMul(f[1], w[1])), RMul(f[2], w[2])),
                     RMul(f[3], w[3])), RMul(f[4], w[4])), RMul(f[5], w[5]))

\* is_truly_liquidatable deciding by the public collateral ratio, as the keepers
\* of the hidden-weight strategies do.
is_truly_liquidatable_by_ratio(cdp, price) ==
  RLess(collateral_ratio(cdp, price), R(16, 10))

is_truly_liquidatable(cdp, price) ==
  RLess(compute_true_score(cdp, price), true_threshold)

\* keeper_perceives_liquidatable with the Transparent keeper looking at the
\* collateral ratio, as the keepers of the hidden-weight strategies do.
keeper_perceives_by_ratio(strat, cdp, price, u) ==
  CASE strat = "Transparent" ->
         << RLess(collateral_ratio(cdp, price), R(16, 10)), One >>
    [] strat = "NoiseBased" ->
         LET perceived_threshold ==
               RMul(true_threshold,
                    RAdd(One, RMul(RMul(RSub(u, R(1, 2)), RInt(2)), noise_level)))
         IN  << RLess(compute_true_score(cdp, price), perceived_threshold),
                RSub(One, noise_level) >>
    [] strat = "IPFE" ->
         << RLess(collateral_ratio(cdp, price), R(16, 10)),
            RAdd(R(2, 10), RMul(u, R(4, 10))) >>
    [] OTHER -> << RLess(collateral_ratio(cdp, price), R(16, 10)), u >>

\* What the keeper perceives: <<perceives liquidatable, confidence>>.  u is the
\* value of the one draw the strategy consumes (Transparent consumes none).
keeper_perceives_liquidatable(strat, cdp, price, u) ==
  CASE strat = "Transparent" ->
         << RLess(compute_true_score(cdp, price), true_threshold), One >>
    [] strat = "NoiseBased" ->
         LET perceived_threshold ==
               RMul(true_threshold,
                    RAdd(One, RMul(RMul(RSub(u, R(1, 2)), RInt(2)), noise_level)))
             score == compute_true_score(cdp, price)
             confidence == RSub(One, noise_level)
         IN  << RLess(score, perceived_threshold), confidence >>
    [] strat = "IPFE" ->
         LET ratio == collateral_ratio(cdp, price)
             confidence == RAdd(R(2, 10), RMul(u, R(4, 10)))
         IN  << RLess(ratio, R(16, 10)), confidence >>
    [] OTHER ->
         LET ratio == collateral_ratio(cdp, price)
         IN  << RLess(ratio, R(16, 10)), u >>

simulate_price_drop(price, pct) == RMul(price, RSub(One, pct))

(***************************************************************************)
(* simulate_game: helpers of the loop body.                                *)
(***************************************************************************)
\* The values of the draw a keeper consumes on a CDP: one rng.gen::<f64>()
\* under every strategy but Transparent, which consumes none.
PerceptionDraws(strat) == IF strat = "Transparent" THEN {Zero} ELSE Draws

\* The inner loop `for keeper in &keepers` from keeper id i on: each keeper
\* that perceives the CDP as liquidatable pushes <<id, priority, confidence>>.
\* The result is the set of the lists the loop can build, one for each choice
\* of the keepers' draws.
RECURSIVE collect_attempts(_, _, _, _, _)
collect_attempts(strat, ks, cdp, price, i) ==
  IF i \notin DOMAIN ks THEN {<<>>}
  ELSE LET rest == collect_attempts(strat, ks, cdp, price, i + 1)
       IN  UNION { LET p == keeper_perceives_liquidatable(strat, cdp, price, u)
                       priority == RMul(ks[i].gas_priority, p[2])
                   IN  IF p[1]
                         THEN { << <<ks[i].id, priority, p[2]>> >> \o r : r \in rest }
                         ELSE rest
                   : u \in PerceptionDraws(strat) }

\* Insert bid b into a list sorted by descending priority, after every bid
\* whose priority is not smaller (the sort is stable).
RECURSIVE insert_desc(_, _)
insert_desc(b, s) ==
  IF s = <<>> THEN <<b>>
  ELSE IF RLess(Head(s)[2], b[2]) THEN <<b>> \o s
  ELSE <<Head(s)>> \o insert_desc(b, Tail(s))

\* The sort with the comparison the other way round: ascending priority.
RECURSIVE insert_asc(_, _)
insert_asc(b, s) ==
  IF s = <<>> THEN <<b>>
  ELSE IF RLess(b[2], Head(s)[2]) THEN <<b>> \o s
  ELSE <<Head(s)>> \o insert_asc(b, Tail(s))

RECURSIVE sort_by_priority_asc(_)
sort_by_priority_asc(s) ==
  IF s = <<>> THEN <<>>
  ELSE insert_asc(s[Len(s)], sort_by_priority_asc(SubSeq(s, 1, Len(s) - 1)))

\* attempts.sort_by(|a, b| b.1.partial_cmp(&a.1).unwrap())
RECURSIVE sort_by_priority_desc(_)
sort_by_priority_desc(s) ==
  IF s = <<>> THEN <<>>
  ELSE insert_desc(s[Len(s)], sort_by_priority_desc(SubSeq(s, 1, Len(s) - 1)))

uses_random(strat) == strat \in {"FairRAI", "FairRAI5050", "KeeperPool"}

\* The winner drawn at random under every strategy.
winner_idx_choices_always_random(strat, n) == 0 .. (n - 1)

\* The values winner_idx can take for n attempts.
winner_idx_choices(strat, n) == IF uses_random(strat) THEN 0 .. (n - 1) ELSE {0}

add_profit(ks, kid, amount) ==
  [ks EXCEPT ![kid].total_profit = RAdd(@, amount)]

\* for (i, (kid, _, _)) in attempts.iter().enumerate()
\*     { if i != winner_idx { keepers[*kid].total_profit += per_other } }
RECURSIVE pay_others(_, _, _, _, _)
pay_others(ks, sorted, winner_idx, per_other, i) ==
  IF i >= Len(sorted) THEN ks
  ELSE pay_others(IF i # winner_idx
                    THEN add_profit(ks, sorted[i + 1][1], per_other) ELSE ks,
                  sorted, winner_idx, per_other, i + 1)

\* for (kid, _, _) in attempts.iter() { keepers[*kid].total_profit += per_keeper }
RECURSIVE pay_all(_, _, _, _)
pay_all(ks, sorted, per_keeper, i) ==
  IF i >= Len(sorted) THEN ks
  ELSE pay_all(add_profit(ks, sorted[i + 1][1], per_keeper), sorted, per_keeper, i + 1)

\* distribute_profit with the KeeperPool share paid to the bidders other than the
\* winner only.
distribute_profit_pool_skips_winner(strat, ks, sorted, winner_idx, profit) ==
  LET winner_id == sorted[winner_idx + 1][1]
  IN  CASE strat \in {"FairRAI", "FairRAI5050"} /\ Len(sorted) > 1 ->
             LET winner_share ==
                   RMul(profit, IF strat = "FairRAI" THEN R(6, 10) ELSE R(5, 10))
                 per_other ==
                   RDiv(RSub(profit, winner_share), RInt(Len(sorted) - 1))
             IN  pay_others(add_profit(ks, winner_id, winner_share),
                            sorted, winner_idx, per_other, 0)
        [] strat = "KeeperPool" ->
             LET keeper_pool == RMul(profit, R(7, 10))
                 per_keeper == RDiv(keeper_pool, RInt(Len(sorted)))
             IN  pay_others(ks, sorted, winner_idx, per_keeper, 0)
        [] OTHER -> add_profit(ks, winner_id, profit)

\* distribute_profit with the FairRAI pool divided by the number of bidders
\* instead of the number of the other bidders.
distribute_profit_pool_by_len(strat, ks, sorted, winner_idx, profit) ==
  LET winner_id == sorted[winner_idx + 1][1]
  IN  CASE strat \in {"FairRAI", "FairRAI5050"} /\ Len(sorted) > 1 ->
             LET winner_share ==
                   RMul(profit, IF strat = "FairRAI" THEN R(6, 10) ELSE R(5, 10))
                 per_other == RDiv(RSub(profit, winner_share), RInt(Len(sorted)))
             IN  pay_others(add_profit(ks, winner_id, winner_share),
                            sorted, winner_idx, per_other, 0)
        [] strat = "KeeperPool" ->
             LET keeper_pool == RMul(profit, R(7, 10))
                 per_keeper == RDiv(keeper_pool, RInt(Len(sorted)))
             IN  pay_all(ks, sorted, per_keeper, 0)
        [] OTHER -> add_profit(ks, winner_id, profit)

\* The `match strategy` that distributes the profit of a liquidated CDP.
distribute_profit(strat, ks, sorted, winner_idx, profit) ==
  LET winner_id == sorted[winner_idx + 1][1]
  IN  CASE strat = "FairRAI" /\ Len(sorted) > 1 ->
             LET winner_share == RMul(profit, R(6, 10))
                 pool_share == RMul(profit, R(4, 10))
                 per_other == RDiv(pool_share, RInt(Len(sorted) - 1))
             IN  pay_others(add_profit(ks, winner_id, winner_share),
                            sorted, winner_idx, per_other, 0)
        [] strat = "FairRAI5050" /\ Len(sorted) > 1 ->
             LET winner_share == RMul(profit, R(5, 10))
                 pool_share == RMul(profit, R(5, 10))
                 per_other == RDiv(pool_share, RInt(Len(sorted) - 1))
             IN  pay_others(add_profit(ks, winner_id, winner_share),
                            sorted, winner_idx, per_other, 0)
        [] strat = "KeeperPool" ->
             LET keeper_pool == RMul(profit, R(7, 10))
                 per_keeper == RDiv(keeper_pool, RInt(Len(sorted)))
             IN  pay_all(ks, sorted, per_keeper, 0)
        [] OTHER -> add_profit(ks, winner_id, profit)

(***************************************************************************)
(* simulate_game: the metrics.                                             *)
(***************************************************************************)
RECURSIVE insert_profit_desc(_, _)
insert_profit_desc(x, s) ==
  IF s = <<>> THEN <<x>>
  ELSE IF RLess(Head(s), x) THEN <<x>> \o s
  ELSE <<Head(s)>> \o insert_profit_desc(x, Tail(s))

\* profits.sort_by(|a, b| b.partial_cmp(a).unwrap())
RECURSIVE sort_profits_desc(_)
sort_profits_desc(s) ==
  IF s = <<>> THEN <<>>
  ELSE insert_profit_desc(s[Len(s)], sort_profits_desc(SubSeq(s, 1, Len(s) - 1)))

\* s.iter().take(n).sum::<f64>()
RECURSIVE sum_take(_, _)
sum_take(s, n) ==
  IF n = 0 \/ s = <<>> THEN Zero ELSE RAdd(Head(s), sum_take(Tail(s), n - 1))

keeper_profits(ks) ==
  [i \in 1 .. Cardinality(DOMAIN ks) |-> ks[i - 1].total_profit]

profit_concentration_of(ks, total) ==
  IF RLess(Zero, total)
    THEN LET profits == sort_profits_desc(keeper_profits(ks))
             top_20_pct == sum_take(profits, Cardinality(DOMAIN ks) \div TOP_DIVISOR)
         IN  RDiv(top_20_pct, total)
    ELSE Zero

IMax(a, b) == IF a < b THEN b ELSE a

\* gas_waste_ratio with the failed attempts left out of the denominator.
gas_waste_ratio_over_successful(failed, successful) ==
  RDiv(RInt(failed), RInt(IMax(successful, 1)))

gas_waste_ratio_of(failed, successful) ==
  RDiv(RInt(failed), RInt(IMax(failed + successful, 1)))

\* coverage over the number of CDPs that were liquidated, not of those that
\* are truly liquidatable.
coverage_over_successful(successful, truly) ==
  RDiv(RInt(Len(truly)), RInt(IMax(successful, 1)))

coverage_of(successful, truly) ==
  RDiv(RInt(successful), RInt(IMax(Len(truly), 1)))

(***************************************************************************)
(* Initial states: the state of simulate_game after LiquidationGame::new   *)
(* and the keepers' construction, for the strategies S and the keeper      *)
(* counts K.                                                               *)
(***************************************************************************)
CdpDraws == CollateralDraws \X RatioDraws \X AgeDraws \X VolatilityDraws

CdpPopulations ==
  { [i \in 1 .. MaxCdps |-> CDP_new(i - 1, c[i][1], c[i][2], c[i][3], c[i][4])] :
      c \in [1 .. MaxCdps -> CdpDraws] }

KeeperPopulations(n, G) ==
  { [i \in 0 .. (n - 1) |-> Keeper_new(i, g[i])] : g \in [0 .. (n - 1) -> G] }

\* S: the strategies, K: the keeper counts, G: the values of the gas priority draw.
InitWith(S, K, G) ==
  /\ strategy \in S
  /\ cdps \in CdpPopulations
  /\ eth_price = RInt(ETH_PRICE)
  /\ \E n \in K : keepers \in KeeperPopulations(n, G)
  /\ truly_liquidatable = <<>>
  /\ total_profit_extracted = Zero
  /\ failed_attempts = 0
  /\ successful_liquidations = 0
  /\ front_runner_profit = Zero
  /\ missed_liquidations = 0
  /\ cdp_idx = 1
  /\ attempts = <<>>
  /\ winner = NoWinner
  /\ result = <<>>
  /\ pc = "start"

Init == InitWith(Strategies, 1 .. MaxKeepers, Draws)

(***************************************************************************)
(* Actions.                                                                *)
(***************************************************************************)
\* game.simulate_price_drop(0.10), then the truly liquidatable CDPs are found.
PriceDrop ==
  /\ pc = "start"
  /\ eth_price' = simulate_price_drop(eth_price, PRICE_DROP_PCT)
  /\ truly_liquidatable' =
       SelectSeq([i \in 1 .. Len(cdps) |-> i - 1],
                 LAMBDA i : is_truly_liquidatable(cdps[i + 1], eth_price'))
  /\ pc' = IF Len(cdps) = 0 THEN "metrics" ELSE "collect"
  /\ UNCHANGED << strategy, cdps, keepers, total_profit_extracted,
                  failed_attempts, successful_liquidations, front_runner_profit,
                  missed_liquidations, cdp_idx, attempts, winner, result >>

\* First half of the loop body: every keeper evaluates the CDP.
CollectBids ==
  /\ pc = "collect"
  /\ attempts' \in collect_attempts(strategy, keepers, cdps[cdp_idx], eth_price, 0)
  /\ winner' = NoWinner
  /\ pc' = "resolve"
  /\ UNCHANGED << strategy, cdps, eth_price, keepers, truly_liquidatable,
                  total_profit_extracted, failed_attempts,
                  successful_liquidations, front_runner_profit,
                  missed_liquidations, cdp_idx, result >>

\* Where the loop goes after the CDP at cdp_idx.
NextPc == IF cdp_idx = Len(cdps) THEN "metrics" ELSE "collect"

\* Second half of the loop body: no bid, or the winner is selected and the
\* liquidation succeeds or fails.
ResolveCdp ==
  /\ pc = "resolve"
  /\ LET cdp == cdps[cdp_idx]
         truly == is_truly_liquidatable(cdp, eth_price)
     IN
     IF attempts = <<>>
       THEN /\ missed_liquidations' =
                 IF truly
                   THEN missed_liquidations + 1 ELSE missed_liquidations
            /\ winner' = NoWinner
            /\ UNCHANGED << keepers, total_profit_extracted, failed_attempts,
                            successful_liquidations, front_runner_profit >>
       ELSE LET sorted == sort_by_priority_desc(attempts) IN
            \E winner_idx \in winner_idx_choices(strategy, Len(sorted)) :
              LET winner_id == sorted[winner_idx + 1][1] IN
              /\ winner' = << [idx |-> winner_idx, bid |-> sorted[winner_idx + 1]] >>
              /\ IF truly
                   THEN LET profit == liquidation_profit(cdp, eth_price)
                            paid == distribute_profit(strategy, keepers, sorted,
                                                      winner_idx, profit)
                        IN  /\ keepers' =
                                 [paid EXCEPT ![winner_id].successful_liquidations = @ + 1]
                            /\ total_profit_extracted' =
                                 RAdd(total_profit_extracted, profit)
                            /\ successful_liquidations' = successful_liquidations + 1
                            /\ front_runner_profit' =
                                 IF RLess(R(8, 10), keepers[winner_id].gas_priority)
                                   THEN RAdd(front_runner_profit, profit)
                                   ELSE front_runner_profit
                            /\ UNCHANGED failed_attempts
                   ELSE /\ failed_attempts' = failed_attempts + 1
                        /\ UNCHANGED << keepers, total_profit_extracted,
                                        successful_liquidations, front_runner_profit >>
              /\ UNCHANGED missed_liquidations
  /\ attempts' = <<>>
  /\ cdp_idx' = cdp_idx + 1
  /\ pc' = NextPc
  /\ UNCHANGED << strategy, cdps, eth_price, truly_liquidatable, result >>

\* The metrics and the GameResult returned.
ComputeMetrics ==
  /\ pc = "metrics"
  /\ result' =
       << [strategy |-> strategy,
           successful_liquidations |-> successful_liquidations,
           failed_attempts |-> failed_attempts,
           missed_liquidations |-> missed_liquidations,
           total_profit |-> total_profit_extracted,
           front_runner_profit |-> front_runner_profit,
           profit_concentration |->
             profit_concentration_of(keepers, total_profit_extracted),
           gas_waste_ratio |->
             gas_waste_ratio_of(failed_attempts, successful_liquidations),
           coverage |-> coverage_of(successful_liquidations, truly_liquidatable)] >>
  /\ pc' = "done"
  /\ UNCHANGED << strategy, cdps, eth_price, keepers, truly_liquidatable,
                  total_profit_extracted, failed_attempts,
                  successful_liquidations, front_runner_profit,
                  missed_liquidations, cdp_idx, attempts, winner >>

Next == PriceDrop \/ CollectBids \/ ResolveCdp \/ ComputeMetrics

Spec == Init /\ [][Next]_vars

(***************************************************************************)
(* The runs of one strategy family, with SplitKeepers keepers at most, and *)
(* the runs of the smallest keeper population whose top 20% (the           *)
(* NUM_KEEPERS / 5 keepers of the profit concentration) is not empty.      *)
(***************************************************************************)
InitTransparent == InitWith({"Transparent"}, 1 .. SplitKeepers, Draws)

SpecTransparent == InitTransparent /\ [][Next]_vars

InitFair == InitWith({"FairRAI", "FairRAI5050"}, 1 .. SplitKeepers, {R(9, 10)})

SpecFair == InitFair /\ [][Next]_vars

InitPool == InitWith({"KeeperPool"}, 1 .. SplitKeepers, {R(9, 10)})

SpecPool == InitPool /\ [][Next]_vars

InitCohort == InitWith(Strategies, {TOP_DIVISOR}, {R(9, 10)})

SpecCohort == InitCohort /\ [][Next]_vars

\* The Transparent runs of at most TOP_DIVISOR keepers, the largest population
\* having a top 20% of one keeper.
InitMonopoly == InitWith({"Transparent"}, 1 .. TOP_DIVISOR, Draws)

SpecMonopoly == InitMonopoly /\ [][Next]_vars

(***************************************************************************)
(* Properties.                                                             *)
(***************************************************************************)
\* The id of the winner recorded in w.
WinnerId(w) == w[1].bid[1]

\* The ids of the keepers that bid.
Bidders(att) == {att[i][1] : i \in 1 .. Len(att)}

\* The sum of the keepers' cumulative profits.
RECURSIVE total_of_from(_, _)
total_of_from(ks, i) ==
  IF i \notin DOMAIN ks THEN Zero
  ELSE RAdd(ks[i].total_profit, total_of_from(ks, i + 1))

total_of(ks) == total_of_from(ks, 0)

\* The CDP of the current iteration and what it is truly.
CurrentCdp == cdps[cdp_idx]

CurrentTruly == is_truly_liquidatable(CurrentCdp, eth_price)

CurrentProfit == liquidation_profit(CurrentCdp, eth_price)

\* C1: under KeeperPool, resolving a truly liquidatable CDP that has k > 0 bids
\* adds 0.7 * profit / k to the cumulative profit of every keeper that bid (the
\* winner included), leaves the keepers that did not bid unchanged, and the
\* increments sum to exactly 0.7 * profit.
C1_KeeperPoolSplit ==
  [][ (pc = "resolve" /\ strategy = "KeeperPool" /\ attempts # <<>> /\ CurrentTruly)
      => LET k == Len(attempts)
             pool == RMul(CurrentProfit, R(7, 10))
             share == RDiv(pool, RInt(k))
         IN  /\ \A id \in KeeperIds :
                  keepers'[id].total_profit =
                    IF id \in Bidders(attempts)
                      THEN RAdd(keepers[id].total_profit, share)
                      ELSE keepers[id].total_profit
             /\ WinnerId(winner') \in Bidders(attempts)
             /\ RSub(total_of(keepers'), total_of(keepers)) = pool ]_vars

\* A KeeperPool run in which the first CDP was liquidated with SplitKeepers
\* bidders: each of them holds 0.7 * profit / SplitKeepers.
C1_Witness ==
  /\ strategy = "KeeperPool"
  /\ pc = "collect"
  /\ cdp_idx = 2
  /\ successful_liquidations = 1
  /\ NUM_KEEPERS = SplitKeepers
  /\ \A id \in KeeperIds :
       /\ RLess(Zero, keepers[id].total_profit)
       /\ keepers[id].total_profit =
            RDiv(RMul(liquidation_profit(cdps[1], eth_price), R(7, 10)),
                 RInt(SplitKeepers))

\* The winner's share of the profit under a fair strategy.
FairWinnerShare(strat) == IF strat = "FairRAI" THEN R(6, 10) ELSE R(5, 10)

\* C2: under FairRAI and FairRAI5050, resolving a truly liquidatable CDP adds the
\* whole profit to the keepers: with more than one bid the winner gets 60%
\* (50%) and nothing else, each other bidder an even part of the rest; with
\* one bid the winner gets 100%.
C2_FairConservation ==
  [][ (pc = "resolve" /\ strategy \in {"FairRAI", "FairRAI5050"}
         /\ attempts # <<>> /\ CurrentTruly)
      => LET k == Len(attempts)
             w == WinnerId(winner')
             winner_share ==
               IF k > 1 THEN RMul(CurrentProfit, FairWinnerShare(strategy))
               ELSE CurrentProfit
             rest == RSub(CurrentProfit, winner_share)
         IN  /\ w \in Bidders(attempts)
             /\ \A id \in KeeperIds :
                  keepers'[id].total_profit =
                    IF id = w THEN RAdd(keepers[id].total_profit, winner_share)
                    ELSE IF id \in Bidders(attempts)
                      THEN RAdd(keepers[id].total_profit, RDiv(rest, RInt(k - 1)))
                    ELSE keepers[id].total_profit
             /\ RSub(total_of(keepers'), total_of(keepers)) = CurrentProfit ]_vars

\* A FairRAI run in which the first CDP was liquidated with SplitKeepers
\* bidders: the winner holds 60% of the profit, each other keeper a third of
\* the remaining 40%.
C2_Witness ==
  /\ strategy = "FairRAI"
  /\ pc = "collect"
  /\ cdp_idx = 2
  /\ successful_liquidations = 1
  /\ NUM_KEEPERS = SplitKeepers
  /\ winner # NoWinner
  /\ LET profit == liquidation_profit(cdps[1], eth_price) IN
     /\ RLess(Zero, profit)
     /\ \A id \in KeeperIds :
          keepers[id].total_profit =
            IF id = WinnerId(winner) THEN RMul(profit, R(6, 10))
            ELSE RDiv(RMul(profit, R(4, 10)), RInt(SplitKeepers - 1))

InUnit(x) == RLeq(Zero, x) /\ RLeq(x, One)

\* C3: the profit concentration, the gas waste ratio and the coverage a run
\* returns lie in [0, 1], under every strategy and for every draw.
C3_MetricsInUnitInterval ==
  result # <<>> =>
    /\ InUnit(result[1].profit_concentration)
    /\ InUnit(result[1].gas_waste_ratio)
    /\ InUnit(result[1].coverage)

\* A run of TOP_DIVISOR keepers that returns a profit concentration and a gas
\* waste ratio strictly between 0 and 1.
C3_Witness ==
  /\ result # <<>>
  /\ NUM_KEEPERS \div TOP_DIVISOR >= 1
  /\ RLess(Zero, result[1].profit_concentration)
  /\ RLess(result[1].profit_concentration, One)
  /\ RLess(Zero, result[1].gas_waste_ratio)
  /\ RLess(result[1].gas_waste_ratio, One)
  /\ result[1].coverage = One

\* Whether a CDP's true score is below the true threshold at the current price.
TrulyEligible(cdp) == RLess(compute_true_score(cdp, eth_price), true_threshold)

EligibleIndices == {i \in 1 .. Len(cdps) : TrulyEligible(cdps[i])}

\* C4: under Transparent every keeper perceives a CDP as liquidatable exactly
\* when it truly is, with confidence 1; the winner of a CDP gains exactly the
\* CDP's liquidation profit; and the run ends with no failed attempt, no missed
\* liquidation and as many successful liquidations as truly liquidatable CDPs.
C4_TransparentExact ==
  /\ [][ (pc = "collect" /\ strategy = "Transparent")
         => /\ Bidders(attempts') =
                 IF TrulyEligible(CurrentCdp) THEN KeeperIds ELSE {}
            /\ \A i \in 1 .. Len(attempts') : attempts'[i][3] = One ]_vars
  /\ [][ (pc = "resolve" /\ strategy = "Transparent" /\ attempts # <<>>)
         => /\ TrulyEligible(CurrentCdp)
            /\ keepers'[WinnerId(winner')].total_profit =
                 RAdd(keepers[WinnerId(winner')].total_profit,
                      liquidation_profit(CurrentCdp, eth_price))
            /\ successful_liquidations' = successful_liquidations + 1 ]_vars
  /\ []( (strategy = "Transparent" /\ result # <<>>)
         => /\ result[1].failed_attempts = 0
            /\ result[1].missed_liquidations = 0
            /\ result[1].successful_liquidations = Cardinality(EligibleIndices) )

\* A Transparent run that returned with every CDP truly liquidatable and
\* liquidated, the winner holding the sum of the CDPs' profits.
C4_Witness ==
  /\ strategy = "Transparent"
  /\ result # <<>>
  /\ Cardinality(EligibleIndices) = MaxCdps
  /\ result[1].successful_liquidations = MaxCdps
  /\ result[1].failed_attempts = 0
  /\ result[1].missed_liquidations = 0
  /\ winner # NoWinner
  /\ RLess(Zero, result[1].total_profit)
  /\ keepers[WinnerId(winner)].total_profit = result[1].total_profit

\* C6: a run none of whose CDPs is truly liquidatable returns coverage 0, no
\* missed and no successful liquidation, total profit 0 and concentration 0;
\* each CDP that receives a bid is one failed attempt, and the gas waste ratio
\* is 1 if there was one and 0 otherwise.
C6_ZeroEligibleRun ==
  /\ [][ (pc = "resolve" /\ EligibleIndices = {})
         => failed_attempts' =
              IF attempts # <<>> THEN failed_attempts + 1 ELSE failed_attempts ]_vars
  /\ []( (result # <<>> /\ EligibleIndices = {})
         => /\ result[1].coverage = Zero
            /\ result[1].missed_liquidations = 0
            /\ result[1].successful_liquidations = 0
            /\ result[1].total_profit = Zero
            /\ result[1].profit_concentration = Zero
            /\ result[1].gas_waste_ratio =
                 IF result[1].failed_attempts > 0 THEN One ELSE Zero )

\* A run with no truly liquidatable CDP in which every CDP received a bid.
C6_Witness ==
  /\ result # <<>>
  /\ EligibleIndices = {}
  /\ result[1].failed_attempts = MaxCdps
  /\ result[1].gas_waste_ratio = One
  /\ result[1].coverage = Zero

\* C8: a bid's priority is gas_priority * confidence; the winner of a CDP that
\* received a bid is one of its bids; under Transparent, NoiseBased and IPFE it
\* is the first bid of the ranking and no bid has a higher priority; under
\* FairRAI, FairRAI5050 and KeeperPool it is a bid of any rank.
C8_WinnerSelection ==
  /\ []( pc = "resolve" =>
           \A i \in 1 .. Len(attempts) :
             attempts[i][2] =
               RMul(keepers[attempts[i][1]].gas_priority, attempts[i][3]) )
  /\ [][ (pc = "resolve" /\ attempts # <<>>)
         => /\ winner' # NoWinner
            /\ \E i \in 1 .. Len(attempts) : attempts[i] = winner'[1].bid
            /\ winner'[1].idx \in 0 .. (Len(attempts) - 1)
            /\ ~uses_random(strategy) =>
                 /\ winner'[1].idx = 0
                 /\ \A i \in 1 .. Len(attempts) :
                      RLeq(attempts[i][2], winner'[1].bid[2]) ]_vars

\* A FairRAI CDP on which every keeper bid was won by the bid ranked last: a
\* keeper of gas priority 1/10 and confidence 1/10, so of priority 1/100, while
\* another bidder has gas priority 9/10, so a priority of 9/100 at least.
C8_Witness ==
  /\ strategy = "FairRAI"
  /\ pc = "collect"
  /\ NUM_KEEPERS = MaxKeepers
  /\ winner # NoWinner
  /\ winner[1].idx = NUM_KEEPERS - 1
  /\ winner[1].idx > 0
  /\ winner[1].bid[2] = R(1, 100)
  /\ \E id \in KeeperIds : keepers[id].gas_priority = R(9, 10)

\* C9: resolving a CDP that is not truly liquidatable and received a bid adds
\* exactly 1 to failed_attempts and changes no keeper and no other counter.
C9_FailedAttemptFrame ==
  [][ (pc = "resolve" /\ attempts # <<>> /\ ~TrulyEligible(CurrentCdp))
      => /\ failed_attempts' = failed_attempts + 1
         /\ UNCHANGED << keepers, successful_liquidations, total_profit_extracted,
                         front_runner_profit, missed_liquidations >> ]_vars

\* A CDP that is not truly liquidatable was resolved with two bids: one failed
\* attempt, and no keeper gained anything.
C9_Witness ==
  /\ pc = "collect"
  /\ cdp_idx = 2
  /\ uses_random(strategy)
  /\ NUM_KEEPERS = MaxKeepers
  /\ winner # NoWinner
  /\ ~TrulyEligible(cdps[1])
  /\ failed_attempts = 1
  /\ successful_liquidations = 0
  /\ \A id \in KeeperIds :
       keepers[id].total_profit = Zero /\ keepers[id].successful_liquidations = 0

\* The sum of the keepers' successful-liquidation counts.
RECURSIVE count_of_from(_, _)
count_of_from(ks, i) ==
  IF i \notin DOMAIN ks THEN 0
  ELSE ks[i].successful_liquidations + count_of_from(ks, i + 1)

\* C10: resolving a CDP counts it as at most one of successful, failed and
\* missed; when the run returns, the successful and the missed liquidations
\* are the truly liquidatable CDPs, the failed attempts are at most the other
\* CDPs, and the keepers' counts sum to successful_liquidations.
C10_OutcomePartition ==
  /\ [][ pc = "resolve"
         => LET ds == successful_liquidations' - successful_liquidations
                df == failed_attempts' - failed_attempts
                dm == missed_liquidations' - missed_liquidations
            IN  /\ {ds, df, dm} \subseteq {0, 1}
                /\ ds + df + dm <= 1
                /\ ds + dm = IF TrulyEligible(CurrentCdp) THEN 1 ELSE 0 ]_vars
  /\ []( result # <<>>
         => /\ result[1].successful_liquidations + result[1].missed_liquidations
                 = Cardinality(EligibleIndices)
            /\ result[1].failed_attempts
                 <= Len(cdps) - Cardinality(EligibleIndices)
            /\ count_of_from(keepers, 0) = result[1].successful_liquidations )

\* A run that returned with one CDP liquidated and one missed.
C10_Witness ==
  /\ result # <<>>
  /\ result[1].successful_liquidations = 1
  /\ result[1].missed_liquidations = 1
  /\ count_of_from(keepers, 0) = 1

\* The keepers whose gas priority no keeper exceeds.
MaxGasKeepers ==
  {id \in KeeperIds :
     \A other \in KeeperIds :
       RLeq(keepers[other].gas_priority, keepers[id].gas_priority)}

\* C11: under Transparent every keeper bids on exactly the truly liquidatable
\* CDPs with confidence 1; one keeper of maximal gas priority wins every CDP
\* that is liquidated, so it holds every success and every other keeper has
\* profit 0; the run returns profit concentration 1 when the total profit is
\* positive and NUM_KEEPERS / 5 >= 1, and a front-runner profit that is 0 or the
\* total profit.
C11_TransparentMonopoly ==
  /\ [][ (pc = "collect" /\ strategy = "Transparent")
         => attempts' =
              IF TrulyEligible(CurrentCdp)
                THEN [i \in 1 .. NUM_KEEPERS |->
                        <<i - 1, keepers[i - 1].gas_priority, One>>]
                ELSE <<>> ]_vars
  /\ [][ (pc = "resolve" /\ strategy = "Transparent" /\ attempts # <<>>)
         => /\ WinnerId(winner') \in MaxGasKeepers
            /\ keepers'[WinnerId(winner')].successful_liquidations =
                 successful_liquidations + 1 ]_vars
  /\ []( strategy = "Transparent"
         => \E w \in MaxGasKeepers :
              /\ keepers[w].successful_liquidations = successful_liquidations
              /\ keepers[w].total_profit = total_profit_extracted
              /\ \A id \in KeeperIds \ {w} :
                   /\ keepers[id].total_profit = Zero
                   /\ keepers[id].successful_liquidations = 0 )
  /\ []( (strategy = "Transparent" /\ result # <<>>)
         => /\ (RLess(Zero, result[1].total_profit)
                  /\ NUM_KEEPERS \div TOP_DIVISOR >= 1)
                 => result[1].profit_concentration = One
            /\ result[1].front_runner_profit \in {Zero, result[1].total_profit} )

\* A Transparent run of TOP_DIVISOR keepers, two of them tied at the maximal
\* gas priority 9/10 and one below it, that returned with every CDP liquidated
\* by the same keeper: it holds the whole profit, a front-runner profit.
C11_Witness ==
  /\ strategy = "Transparent"
  /\ result # <<>>
  /\ NUM_KEEPERS = TOP_DIVISOR
  /\ Cardinality(MaxGasKeepers) >= 2
  /\ MaxGasKeepers # KeeperIds
  /\ result[1].successful_liquidations = MaxCdps
  /\ RLess(Zero, result[1].total_profit)
  /\ result[1].profit_concentration = One
  /\ result[1].front_runner_profit = result[1].total_profit
  /\ \E w \in MaxGasKeepers :
       /\ keepers[w].successful_liquidations = MaxCdps
       /\ \A id \in KeeperIds \ {w} : keepers[id].total_profit = Zero

====
